---- MODULE Spec2Model ----
(***************************************************************************)
(* Model of the audio recording server (src/server_code/server.py): the    *)
(* POST /api/audio handler receive_audio, the recordings directory it      *)
(* writes to and the wall clock it names files by.                         *)
(*                                                                         *)
(* Representation.                                                         *)
(*  - A text (a header value, the content type) is a sequence of latin-1  *)
(*    code points; an absent header is <<>>, a present one <<text>>.       *)
(*  - A byte string is a sequence of intervals <<from, to>> of positions   *)
(*    of the request's byte source (adjacent intervals are merged), so     *)
(*    that real sizes (16 KiB chunks, the 10 MiB limit) stay checkable     *)
(*    and the order of the bytes stays visible.                            *)
(*  - The content of a file is a sequence of pieces <<owner, from, to>>:   *)
(*    the bytes [from, to) of the body of request owner.                   *)
(*  - duration_seconds is kept in hundredths (an integer).                 *)
(***************************************************************************)
EXTENDS Integers, Sequences, FiniteSets, TLC

VARIABLES
    now,      \* wall clock, in ticks of 1/TicksPerSecond second
    files,    \* recordings directory: filename (its second) -> content
    req       \* per request: position in receive_audio and its locals

vars == <<now, files, req>>

----------------------------------------------------------------------------
\* Bounds of the model.

MaxReqs == 2          \* request identities
MaxNow == 2           \* last clock tick
TicksPerSecond == 2   \* clock ticks within one wall-clock second

\* Program constants.

chunk_size == 16384
max_size == 10485760

Reqs == 1..MaxReqs

----------------------------------------------------------------------------
\* Text. A character is its code point, 0..255: a WSGI header is latin-1 text.

\* The printable ASCII characters, from the blank (32) to the tilde (126); the
\* grave accent (96), which a string of this language cannot hold, is left
\* empty.
Ascii ==
    <<" ", "!", "\"", "#", "$", "%", "&", "'", "(", ")", "*", "+", ",", "-", ".",
      "/", "0", "1", "2", "3", "4", "5", "6", "7", "8", "9", ":", ";", "<", "=",
      ">", "?", "@", "A", "B", "C", "D", "E", "F", "G", "H", "I", "J", "K", "L",
      "M", "N", "O", "P", "Q", "R", "S", "T", "U", "V", "W", "X", "Y", "Z", "[",
      "\\", "]", "^", "_", "", "a", "b", "c", "d", "e", "f", "g", "h", "i", "j",
      "k", "l", "m", "n", "o", "p", "q", "r", "s", "t", "u", "v", "w", "x", "y",
      "z", "{", "|", "}", "~">>

\* ord(c) of a printable ASCII character.
Ord(c) == 31 + CHOOSE i \in 1..Len(Ascii) : Ascii[i] = c

\* The text written as a tuple of printable ASCII characters.
Text(t) == [i \in 1..Len(t) |-> Ord(t[i])]

DefaultSampleRate == Text(<<"1", "6", "0", "0", "0">>)
DefaultBits == Text(<<"1", "6">>)
DefaultChannels == Text(<<"1">>)
AudioPcm == Text(<<"a", "u", "d", "i", "o", "/", "p", "c", "m">>)

\* str.lower() on one latin-1 character: A-Z and the capitals 192..222 but
\* the multiplication sign (215) have their lowercase 32 places on.
LowerChar(c) ==
    IF (65 <= c /\ c <= 90) \/ (192 <= c /\ c <= 222 /\ c # 215)
    THEN c + 32
    ELSE c

\* str.lower().
Lower(s) == [i \in 1..Len(s) |-> LowerChar(s[i])]

\* sub in s.
Contains(sub, s) ==
    \E i \in 1..(Len(s) - Len(sub) + 1) : SubSeq(s, i, i + Len(sub) - 1) = sub

\* request.headers.get(name, default): hdr is <<>> (absent) or <<text>>.
HeaderGet(hdr, default) == IF hdr = <<>> THEN default ELSE hdr[1]

\* 'audio/pcm' not in content_type.lower()
UnexpectedContentType(ct) == ~Contains(AudioPcm, Lower(ct))

IsDigit(c) == 48 <= c /\ c <= 57
DigitVal(c) == c - 48

\* The whitespace int() drops around the number: tab to carriage return,
\* the blank, NEL and the no-break space.
IsSpace(c) == c \in {9, 10, 11, 12, 13, 32, 133, 160}

RECURSIVE Strip(_)
\* The text without its leading and trailing whitespace, as int() reads it.
Strip(s) ==
    IF s = <<>> THEN s
    ELSE IF IsSpace(Head(s)) THEN Strip(Tail(s))
    ELSE IF IsSpace(s[Len(s)]) THEN Strip(SubSeq(s, 1, Len(s) - 1))
    ELSE s

RECURSIVE DigitsValue(_, _)
\* The value of digits, the underscores that group them skipped.
DigitsValue(s, acc) ==
    IF s = <<>> THEN acc
    ELSE IF Head(s) = 95 THEN DigitsValue(Tail(s), acc)
    ELSE DigitsValue(Tail(s), 10 * acc + DigitVal(Head(s)))

\* int(text): [ok |-> FALSE] stands for ValueError. A number is an optional
\* sign and digits, single underscores allowed between two digits.
ParseInt(text) ==
    LET t == Strip(text)
        signed == t # <<>> /\ Head(t) \in {43, 45}
        body == IF signed THEN Tail(t) ELSE t
    IN  IF /\ body # <<>>
           /\ IsDigit(body[1])
           /\ IsDigit(body[Len(body)])
           /\ \A i \in 1..Len(body) : IsDigit(body[i]) \/ body[i] = 95
           /\ \A i \in 1..(Len(body) - 1) : ~(body[i] = 95 /\ body[i + 1] = 95)
        THEN [ok |-> TRUE,
              val |-> IF signed /\ Head(t) = 45
                      THEN 0 - DigitsValue(body, 0) ELSE DigitsValue(body, 0)]
        ELSE [ok |-> FALSE, val |-> 0]

----------------------------------------------------------------------------
\* Byte strings.

RECURSIVE DataLen(_)
\* len(audio_data)
DataLen(d) == IF d = <<>> THEN 0 ELSE (Head(d)[2] - Head(d)[1]) + DataLen(Tail(d))

\* audio_data += chunk, the chunk being the bytes [from, to) of the source.
Concat(d, from, to) ==
    IF to = from THEN d
    ELSE IF d # <<>> /\ d[Len(d)][2] = from
         THEN [d EXCEPT ![Len(d)] = <<d[Len(d)][1], to>>]
         ELSE Append(d, <<from, to>>)

RECURSIVE Prefix(_, _)
\* audio_data[:n]
Prefix(d, n) ==
    IF d = <<>> \/ n <= 0 THEN <<>>
    ELSE IF Head(d)[2] - Head(d)[1] <= n
         THEN <<Head(d)>> \o Prefix(Tail(d), n - (Head(d)[2] - Head(d)[1]))
         ELSE << <<Head(d)[1], Head(d)[1] + n>> >>

\* The bytes d of the body of request r, as file content.
Pieces(r, d) == [i \in 1..Len(d) |-> <<r, d[i][1], d[i][2]>>]

RECURSIVE DropBytes(_, _)
\* The file content c from offset n on.
DropBytes(c, n) ==
    IF c = <<>> \/ n <= 0 THEN c
    ELSE IF Head(c)[3] - Head(c)[2] <= n
         THEN DropBytes(Tail(c), n - (Head(c)[3] - Head(c)[2]))
         ELSE << <<Head(c)[1], Head(c)[2] + n, Head(c)[3]>> >> \o Tail(c)

\* f.write(d) at offset 0 of a file holding c: the bytes of c past the
\* written ones stay.
Overwrite(c, r, d) == Pieces(r, d) \o DropBytes(c, DataLen(d))

\* A test for None instead of emptiness: never true of a byte string.
NoAudioDataIsNone(d) == FALSE

\* not audio_data
NoAudioData(d) == DataLen(d) = 0

Min(a, b) == IF a <= b THEN a ELSE b

----------------------------------------------------------------------------
\* The byte source of a request (request.stream and, behind it, wsgi.input)
\* and the disk it is saved to.
\*   cl         request.content_length: <<>> (None) or <<n>>
\*   avail      bytes the client sends before EOF
\*   short      the most the first reads return (reads after these are full)
\*   raiseAt    the call of request.stream.read that raises (0: none)
\*   wsgi       whether environ holds 'wsgi.input'
\*   fbRaiseAt  the call of wsgi_input.read that raises (0: none)
\*   disk       what the file system does, see below

\* A source that does not reach EOF within what receive_audio can read.
Unbounded == max_size + 2 * chunk_size

\* The file system: open and write succeed, open raises, or the write raises
\* after `wrote` bytes reached the file.
DiskOk == [fail |-> "none", wrote |-> 0]
DiskOpenFails == [fail |-> "open", wrote |-> 0]
DiskWriteFails(n) == [fail |-> "write", wrote |-> n]

\* request.content_length and request.content_length > 0
HasLength(b) == b.cl # <<>> /\ b.cl[1] > 0

\* The bytes request.stream.read(n) returns at its k-th call, from position pos.
StreamRead(b, pos, k, n) ==
    Min(Min(n, b.avail - pos), IF k <= Len(b.short) THEN b.short[k] ELSE n)

\* The bytes wsgi_input.read(n) returns from position pos.
WsgiRead(b, pos, n) == Min(n, b.avail - pos)

----------------------------------------------------------------------------
\* Responses: jsonify(...) and the HTTP status.

ErrorResponse(code, message) ==
    [code |-> code, status |-> "error", message |-> message, filename |-> <<>>,
     size_bytes |-> <<>>, duration_seconds |-> <<>>, sample_rate |-> <<>>,
     bits_per_sample |-> <<>>, channels |-> <<>>]

NoResponse == ErrorResponse(0, "")

\* The read failure left to the outer handler (lines 156-161).
ReadFailureUncaught == ErrorResponse(500, "Server error")

ReadFailureResponse == ErrorResponse(400, "Failed to read audio stream")

NoDataResponse == ErrorResponse(400, "No audio data received")

ServerErrorResponse == ErrorResponse(500, "Server error")

\* The significant bits of a double.
DoubleMantissaBits == 53

RECURSIVE BitLen(_)
\* int.bit_length()
BitLen(n) == IF n = 0 THEN 0 ELSE 1 + BitLen(n \div 2)

RECURSIVE TailAfterMantissa(_, _, _)
\* Long division of k by 200 in binary, from remainder rem with `have`
\* significant bits produced, the last being `last`: the remainder left
\* after the 53rd significant bit, and that bit.
TailAfterMantissa(rem, have, last) ==
    IF have = DoubleMantissaBits THEN [rem |-> rem, last |-> last]
    ELSE TailAfterMantissa((2 * rem) % 200,
                           IF have = 0 /\ 2 * rem < 200 THEN 0 ELSE have + 1,
                           (2 * rem) \div 200)

\* Whether the double nearest to k / 200 (k > 0) lies above k / 200: the
\* quotient is rounded to 53 significant bits, to the even one on a tie.
DoubleAbove(k) ==
    LET t == TailAfterMantissa(k % 200, BitLen(k \div 200), (k \div 200) % 2)
    IN  t.rem > 100 \/ (t.rem = 100 /\ t.last = 1)

\* round(n / d, 2) in hundredths, d # 0: the division gives the double
\* nearest to the quotient and round() the hundredth nearest to that double,
\* the even one when the double is itself half way. Off a half-way quotient
\* the double and the quotient have the same nearest hundredth (for n below
\* 2^53 / 200); on one, the double is half way only if the quotient is a
\* multiple of 1/8, and lies above or below it otherwise.
Round2(n, d) ==
    LET a == IF n < 0 THEN 0 - n ELSE n
        b == IF d < 0 THEN 0 - d ELSE d
        q == (100 * a) \div b
        r == 100 * a - q * b
        m == IF 2 * r < b THEN q
             ELSE IF 2 * r > b THEN q + 1
             ELSE IF (2 * q + 1) % 25 = 0
                  THEN (IF q % 2 = 0 THEN q ELSE q + 1)
                  ELSE (IF DoubleAbove(2 * q + 1) THEN q + 1 ELSE q)
    IN  IF (n < 0) = (d < 0) THEN m ELSE 0 - m

\* bytes_per_sample = (bits_per_sample_int // 8) * channels_int
BytesPerSample(bits, channels) == (bits \div 8) * channels

\* round(len(audio_data) / (sample_rate_int * bytes_per_sample), 2), in
\* hundredths.
RoundedDuration(size, rate, bps) == Round2(size, rate * bps)

\* Lines 134-154: the duration and the success response, or the exception that
\* the outer handler turns into a 500.
Outcome(h, size, name) ==
    LET srT == HeaderGet(h.sr, DefaultSampleRate)
        bitsT == HeaderGet(h.bits, DefaultBits)
        chT == HeaderGet(h.ch, DefaultChannels)
        sr == ParseInt(srT)
        bits == ParseInt(bitsT)
        ch == ParseInt(chT)
    IN  IF ~(sr.ok /\ bits.ok /\ ch.ok) THEN ServerErrorResponse
        ELSE IF sr.val * BytesPerSample(bits.val, ch.val) = 0
             THEN ServerErrorResponse
             ELSE [code |-> 200, status |-> "success",
                   message |-> "Audio received and saved",
                   filename |-> <<name>>, size_bytes |-> <<size>>,
                   duration_seconds |->
                       <<RoundedDuration(size, sr.val,
                                         BytesPerSample(bits.val, ch.val))>>,
                   sample_rate |-> srT, bits_per_sample |-> bitsT,
                   channels |-> chT]

\* datetime.datetime.now().strftime("%Y%m%d_%H%M%S"): the clock cut to seconds.
Timestamp(t) == t \div TicksPerSecond

----------------------------------------------------------------------------
\* The state of one request: pc is its position in receive_audio.
\*   "idle"      not yet received
\*   "read"      in the primary read (lines 74-91)
\*   "fallback"  the primary read raised (line 92)
\*   "fbread"    reading wsgi.input (lines 99-108)
\*   "check"     the read is over (line 116)
\*   "named"     the filename is generated (lines 124-126)
\*   "opened"    the file is open, created or truncated (line 129)
\*   "saved"     the file is written and closed (lines 130-132)
\*   "done"      answered

IdleRequest ==
    [pc |-> "idle", h |-> <<>>, b |-> <<>>, data |-> <<>>, pos |-> 0,
     calls |-> 0, fbCalls |-> 0, primaryRaised |-> FALSE, partial |-> 0,
     fbTries |-> 0, fbRaised |-> FALSE, warned |-> FALSE,
     truncated |-> FALSE, ts |-> 0, opened |-> FALSE, existed |-> FALSE,
     stored |-> <<>>, resp |-> NoResponse]

Init ==
    /\ now = 0
    /\ files = <<>>
    /\ req = [r \in Reqs |-> IdleRequest]

\* The request arrives and an unexpected content type is refused.
StartRejectingContentType(r, h, b) ==
    /\ req[r].pc = "idle"
    /\ \A q \in Reqs : q < r => req[q].pc # "idle"
    /\ req' = [req EXCEPT ![r] =
                 IF UnexpectedContentType(HeaderGet(h.ct, <<>>))
                 THEN [@ EXCEPT !.pc = "done", !.h = h, !.b = b, !.warned = TRUE,
                                !.resp = ErrorResponse(415, "Unexpected Content-Type")]
                 ELSE [@ EXCEPT !.pc = "read", !.h = h, !.b = b]]
    /\ UNCHANGED <<now, files>>

\* Lines 53-70: the request arrives, its headers are read and logged. Requests
\* are numbered in the order they arrive.
Start(r, h, b) ==
    /\ req[r].pc = "idle"
    /\ \A q \in Reqs : q < r => req[q].pc # "idle"
    /\ req' = [req EXCEPT ![r] =
                 [@ EXCEPT !.pc = "read", !.h = h, !.b = b,
                           !.warned = UnexpectedContentType(HeaderGet(h.ct, <<>>))]]
    /\ UNCHANGED <<now, files>>

\* Lines 74-93: one call of request.stream.read, the whole read when a length
\* is declared and one turn of the loop when none is.
ReadPrimary(r) ==
    LET q == req[r]
        k == q.calls + 1
        n == IF HasLength(q.b) THEN q.b.cl[1] ELSE chunk_size
        got == StreamRead(q.b, q.pos, k, n)
    IN  /\ q.pc = "read"
        /\ req' = [req EXCEPT ![r] =
             IF ~HasLength(q.b) /\ ~(DataLen(q.data) < max_size)
             THEN [q EXCEPT !.pc = "check", !.truncated = TRUE]
             ELSE IF q.b.raiseAt = k
             THEN [q EXCEPT !.pc = "fallback", !.calls = k,
                            !.primaryRaised = TRUE, !.partial = DataLen(q.data)]
             ELSE IF HasLength(q.b)
             THEN [q EXCEPT !.pc = "check", !.calls = k, !.pos = q.pos + got,
                            !.data = Concat(<<>>, q.pos, q.pos + got)]
             ELSE IF got = 0
             THEN [q EXCEPT !.pc = "check", !.calls = k]
             ELSE [q EXCEPT !.calls = k, !.pos = q.pos + got,
                            !.data = Concat(q.data, q.pos, q.pos + got)]]
        /\ UNCHANGED <<now, files>>

\* Lines 95-98: the fallback is entered; without wsgi.input nothing is read.
Fallback(r) ==
    LET q == req[r]
    IN  /\ q.pc = "fallback"
        /\ req' = [req EXCEPT ![r] =
                     [q EXCEPT !.pc = IF q.b.wsgi THEN "fbread" ELSE "check",
                               !.fbTries = q.fbTries + 1]]
        /\ UNCHANGED <<now, files>>

\* Lines 99-114: one call of wsgi_input.read; if it raises, the request is
\* answered with the read failure.
FallbackRead(r) ==
    LET q == req[r]
        k == q.fbCalls + 1
        n == IF HasLength(q.b) THEN q.b.cl[1] ELSE chunk_size
        got == WsgiRead(q.b, q.pos, n)
    IN  /\ q.pc = "fbread"
        /\ req' = [req EXCEPT ![r] =
             IF ~HasLength(q.b) /\ ~(DataLen(q.data) < max_size)
             THEN [q EXCEPT !.pc = "check"]
             ELSE IF q.b.fbRaiseAt = k
             THEN [q EXCEPT !.pc = "done", !.fbCalls = k, !.fbRaised = TRUE,
                            !.resp = ReadFailureResponse]
             ELSE IF HasLength(q.b)
             THEN [q EXCEPT !.pc = "check", !.fbCalls = k, !.pos = q.pos + got,
                            !.data = Concat(<<>>, q.pos, q.pos + got)]
             ELSE IF got = 0
             THEN [q EXCEPT !.pc = "check", !.fbCalls = k]
             ELSE [q EXCEPT !.fbCalls = k, !.pos = q.pos + got,
                            !.data = Concat(q.data, q.pos, q.pos + got)]]
        /\ UNCHANGED <<now, files>>

\* Lines 116-126: no data is a client error; otherwise the file is named after
\* the clock.
CheckData(r) ==
    LET q == req[r]
    IN  /\ q.pc = "check"
        /\ req' = [req EXCEPT ![r] =
                     IF NoAudioData(q.data)
                     THEN [q EXCEPT !.pc = "done", !.resp = NoDataResponse]
                     ELSE [q EXCEPT !.pc = "named", !.ts = Timestamp(now)]]
        /\ UNCHANGED <<now, files>>

\* Line 129: open(filepath, 'wb') creates the file or truncates the one of
\* that name; a failure is caught by the outer handler (lines 156-161).
OpenFile(r) ==
    LET q == req[r]
    IN  /\ q.pc = "named"
        /\ IF q.b.disk.fail = "open"
           THEN /\ req' = [req EXCEPT ![r] =
                             [q EXCEPT !.pc = "done", !.resp = ServerErrorResponse]]
                /\ UNCHANGED files
           ELSE /\ files' = (q.ts :> <<>>) @@ files
                /\ req' = [req EXCEPT ![r] =
                             [q EXCEPT !.pc = "opened", !.opened = TRUE,
                                       !.existed = q.ts \in DOMAIN files]]
        /\ UNCHANGED now

\* Lines 130-132: f.write(audio_data) from offset 0 and the close; a write
\* that fails leaves what it wrote and is caught by the outer handler.
WriteFile(r) ==
    LET q == req[r]
        d == IF q.b.disk.fail = "write" THEN Prefix(q.data, q.b.disk.wrote)
             ELSE q.data
    IN  /\ q.pc = "opened"
        /\ files' = [files EXCEPT ![q.ts] = Overwrite(@, r, d)]
        /\ req' = [req EXCEPT ![r] =
                     IF q.b.disk.fail = "write"
                     THEN [q EXCEPT !.pc = "done", !.stored = <<d>>,
                                    !.resp = ServerErrorResponse]
                     ELSE [q EXCEPT !.pc = "saved", !.stored = <<d>>]]
        /\ UNCHANGED now

\* Lines 134-161: the duration is computed and the request answered.
Respond(r) ==
    LET q == req[r]
    IN  /\ q.pc = "saved"
        /\ req' = [req EXCEPT ![r] =
                     [q EXCEPT !.pc = "done",
                               !.resp = Outcome(q.h, DataLen(q.data), q.ts)]]
        /\ UNCHANGED <<now, files>>

\* The wall clock advances.
Tick ==
    /\ now < MaxNow
    /\ now' = now + 1
    /\ UNCHANGED <<files, req>>

----------------------------------------------------------------------------
\* The requests the clients send.

Present(S) == {<<t>> : t \in S}

Headers(srs, bitss, chs, cts) == [sr : srs, bits : bitss, ch : chs, ct : cts]

Bodies(cls, avails, shorts, raises, wsgis, fbRaises, disks) ==
    [cl : cls, avail : avails, short : shorts, raiseAt : raises, wsgi : wsgis,
     fbRaiseAt : fbRaises, disk : disks]

ContentTypes ==
    {<<>>} \cup Present({Text(<<"A", "u", "d", "i", "o", "/", "P", "C", "M">>),
                         Text(<<"t", "e", "x", "t">>)})

\* Requests of any number of clients at once: a few bodies, of different
\* lengths, under every content type.
ConcHeaders == Headers({<<>>}, {<<>>}, {<<>>}, ContentTypes)

ConcBodies ==
    Bodies({<<3>>}, {3}, {<<>>}, {0}, {TRUE}, {0}, {DiskOk})
    \cup Bodies({<<>>}, {5}, {<<2>>}, {2}, {TRUE}, {0}, {DiskOk})
    \cup Bodies({<<>>}, {0}, {<<>>}, {0}, {TRUE}, {0}, {DiskOk})

\* One request at a time, over the header values.
SampleRateTexts ==
    {<<>>} \cup Present({DefaultSampleRate, Text(<<"2">>), Text(<<"4", "0">>),
                         Text(<<"2", "0", "0">>), Text(<<"0">>),
                         Text(<<"-", "1">>), Text(<<"a", "b", "c">>)})

BitsTexts ==
    {<<>>} \cup Present({Text(<<"8">>), Text(<<"1", "2">>), Text(<<"4">>),
                         Text(<<"2", "4">>), Text(<<"0">>), Text(<<"-", "8">>),
                         Text(<<"x">>), Text(<<" ", "1", "6", " ">>),
                         Text(<<"1", "_", "6">>), Text(<<"1", "6", "_">>),
                         <<9, 49, 54, 160>>, <<>>})

ChannelTexts ==
    {<<>>} \cup Present({Text(<<"2">>), Text(<<"0">>), Text(<<"-", "1">>),
                         Text(<<"x">>)})

HdrHeaders ==
    Headers(SampleRateTexts, BitsTexts, ChannelTexts,
            Present({AudioPcm, <<201, 84, 201>>}))

HdrBodies ==
    Bodies({<<1>>}, {1}, {<<>>}, {0}, {TRUE}, {0}, {DiskOk})
    \cup Bodies({<<32000>>}, {32000}, {<<>>}, {0}, {TRUE}, {0}, {DiskOk})
    \cup Bodies({<<>>}, {3, 8193}, {<<4096, 4096, 1>>}, {0}, {TRUE}, {0}, {DiskOk})
    \cup Bodies({<<>>}, {8193}, {<<4096>>}, {2}, {TRUE}, {0}, {DiskOk})

\* One request at a time, over the ways the body arrives and is saved.
StreamHeaders ==
    Headers({<<>>}, {<<>>, <<Text(<<"x">>)>>}, {<<>>}, Present({AudioPcm}))

Disks == {DiskOk, DiskOpenFails, DiskWriteFails(0), DiskWriteFails(4096)}

StreamBodies ==
    Bodies({<<>>, <<0>>, <<8000>>}, {0, 1, 8000, 8193},
           {<<>>, <<1>>, <<4096, 4096, 1>>}, 0..2, BOOLEAN, 0..2, Disks)
    \cup Bodies({<<>>, <<0>>}, {Unbounded}, {<<>>, <<1>>, <<4096, 4096, 1>>},
                {0}, {TRUE}, {0}, {DiskOk})

Step(r) ==
    \/ ReadPrimary(r)
    \/ Fallback(r)
    \/ FallbackRead(r)
    \/ CheckData(r)
    \/ OpenFile(r)
    \/ WriteFile(r)
    \/ Respond(r)

Next ==
    \/ \E r \in Reqs : \E h \in ConcHeaders : \E b \in ConcBodies : Start(r, h, b)
    \/ \E r \in Reqs : Step(r)
    \/ Tick

Spec == Init /\ [][Next]_vars

\* The same requests, all within one tick of the clock.
NextSameSecond ==
    \/ \E r \in Reqs : \E h \in ConcHeaders : \E b \in ConcBodies : Start(r, h, b)
    \/ \E r \in Reqs : Step(r)

SpecSameSecond == Init /\ [][NextSameSecond]_vars

NextHeaders ==
    \/ \E h \in HdrHeaders : \E b \in HdrBodies : Start(1, h, b)
    \/ \E r \in Reqs : Step(r)

SpecHeaders == Init /\ [][NextHeaders]_vars

NextStream ==
    \/ \E h \in StreamHeaders : \E b \in StreamBodies : Start(1, h, b)
    \/ \E r \in Reqs : Step(r)

SpecStream == Init /\ [][NextStream]_vars

----------------------------------------------------------------------------
\* Vocabulary of the properties.

Done(r) == req[r].pc = "done"

Quiescent == \A r \in Reqs : req[r].pc \in {"idle", "done"}

\* Request r created, truncated or wrote a file.
Wrote(r) == req[r].opened

\* Some stored file holds bytes of request r.
HoldsBytesOf(r) ==
    \E name \in DOMAIN files :
        \E i \in 1..Len(files[name]) : files[name][i][1] = r

IsPositiveInt(text) == ParseInt(text).ok /\ ParseInt(text).val > 0

SampleRateOf(h) == HeaderGet(h.sr, DefaultSampleRate)
BitsOf(h) == HeaderGet(h.bits, DefaultBits)
ChannelsOf(h) == HeaderGet(h.ch, DefaultChannels)

ValidHeaders(h) ==
    /\ IsPositiveInt(SampleRateOf(h))
    /\ IsPositiveInt(BitsOf(h))
    /\ IsPositiveInt(ChannelsOf(h))

\* The read neither raised nor was cut short by the client, and the disk works.
CleanBody(b) ==
    /\ b.raiseAt = 0
    /\ b.disk = DiskOk
    /\ 0 < b.avail
    /\ b.avail < max_size
    /\ \/ b.cl = <<>>
       \/ b.cl = <<b.avail>> /\ b.short = <<>>

\* The read is over and the fallback added nothing to what the primary read had.
OnlyPartialData(q) ==
    /\ q.primaryRaised
    /\ q.partial > 0
    /\ q.pc \in {"check", "named", "opened", "saved", "done"}
    /\ ~q.fbRaised
    /\ DataLen(q.data) = q.partial

----------------------------------------------------------------------------
\* C1: once every request is answered, every stored file was written by a
\* request answered with success (200); a request answered 400 or 500 has
\* created or modified no file.
C1_OnlySuccessWrites ==
    Quiescent =>
        \A r \in Reqs : Done(r) /\ req[r].resp.code # 200 => ~Wrote(r)

\* C2: a request with a non-empty body one of whose audio headers is not a
\* positive integer is answered 400 with status error.
C2_BadHeaderIsClientError ==
    \A r \in Reqs :
        (/\ Done(r)
         /\ ~req[r].fbRaised
         /\ DataLen(req[r].data) > 0
         /\ req[r].b.disk = DiskOk
         /\ ~ValidHeaders(req[r].h))
        => req[r].resp.code = 400 /\ req[r].resp.status = "error"

\* C3: a request whose read yields zero bytes is answered 400 with status
\* error, and it creates no file and changes none.
C3_EmptyBodyRejected ==
    \A r \in Reqs :
        Done(r) /\ DataLen(req[r].data) = 0
        => /\ req[r].resp.code = 400
           /\ req[r].resp.status = "error"
           /\ ~Wrote(r)
           /\ req[r].stored = <<>>
           /\ ~HoldsBytesOf(r)

C3_Witness ==
    \E r \in Reqs :
        /\ Done(r)
        /\ req[r].calls > 0
        /\ ~req[r].primaryRaised
        /\ req[r].pos = req[r].b.avail
        /\ DataLen(req[r].data) = 0
        /\ req[r].resp = NoDataResponse

\* C4: a request with valid headers and a body of N bytes, 0 < N < 10 MiB,
\* sent with Content-Length N or with no length in any chunks, is answered
\* success with size_bytes = N and has stored exactly those N bytes in order.
C4_BodyStoredExactly ==
    \A r \in Reqs :
        Done(r) /\ ValidHeaders(req[r].h) /\ CleanBody(req[r].b)
        => /\ req[r].resp.code = 200
           /\ req[r].resp.size_bytes = <<req[r].b.avail>>
           /\ req[r].stored = << << <<0, req[r].b.avail>> >> >>

\* C5: the duration a successful request returns is
\* size / (sample_rate * channels * (bits / 8)) with the exact quotient
\* bits / 8, rounded to 2 decimals.
C5_DurationExact ==
    \A r \in Reqs :
        Done(r) /\ req[r].resp.code = 200 /\ ValidHeaders(req[r].h)
        => req[r].resp.duration_seconds =
             <<Round2(8 * req[r].resp.size_bytes[1],
                      ParseInt(SampleRateOf(req[r].h)).val
                      * ParseInt(ChannelsOf(req[r].h)).val
                      * ParseInt(BitsOf(req[r].h)).val)>>

\* C6: every request that saves creates a file under a name no other request
\* used, a stored file holds the bytes of one request only, and once every
\* request is answered there are as many files as requests answered with
\* success.
C6_AppendOnly ==
    /\ \A r \in Reqs : req[r].opened => ~req[r].existed
    /\ \A name \in DOMAIN files :
         \A i, j \in 1..Len(files[name]) : files[name][i][1] = files[name][j][1]
    /\ Quiescent =>
         Cardinality(DOMAIN files)
         = Cardinality({r \in Reqs : Done(r) /\ req[r].resp.code = 200})

\* C7: when the primary read raises, the fallback is entered exactly once;
\* if the fallback read raises too the request is answered 400 with status
\* error and a reason and writes no file; a 500 is never the answer to a
\* read that failed.
C7_FallbackThenClientError ==
    \A r \in Reqs :
        LET q == req[r]
        IN  /\ q.fbTries = IF q.primaryRaised /\ q.pc # "fallback" THEN 1 ELSE 0
            /\ q.fbRaised =>
                 /\ q.primaryRaised
                 /\ q.pc = "done"
                 /\ q.resp.code = 400
                 /\ q.resp.status = "error"
                 /\ q.resp.message = "Failed to read audio stream"
                 /\ ~Wrote(r)
                 /\ ~HoldsBytesOf(r)
            /\ (q.pc = "done" /\ q.resp.code = 500) =>
                 ~q.fbRaised /\ DataLen(q.data) > 0

C7_Witness ==
    \E r \in Reqs :
        /\ Done(r)
        /\ req[r].primaryRaised
        /\ req[r].fbTries = 1
        /\ req[r].fbRaised
        /\ req[r].resp.code = 400

\* C8: two answered requests that differ only in Content-Type have the same
\* HTTP status, the same response but for the filename, and wrote the same
\* bytes.
C8_ContentTypeIrrelevant ==
    \A r1, r2 \in Reqs :
        (/\ Done(r1)
         /\ Done(r2)
         /\ [req[r1].h EXCEPT !.ct = <<>>] = [req[r2].h EXCEPT !.ct = <<>>]
         /\ req[r1].b = req[r2].b)
        => /\ req[r1].resp.code = req[r2].resp.code
           /\ [req[r1].resp EXCEPT !.filename = <<>>]
              = [req[r2].resp EXCEPT !.filename = <<>>]
           /\ req[r1].opened = req[r2].opened
           /\ req[r1].stored = req[r2].stored

C8_Witness ==
    \E r1, r2 \in Reqs :
        /\ Done(r1)
        /\ Done(r2)
        /\ req[r1].b = req[r2].b
        /\ req[r1].h.ct # req[r2].h.ct
        /\ req[r1].warned
        /\ ~req[r2].warned
        /\ req[r1].resp.code = 200
        /\ req[r2].resp.code = 200

\* C9: the bytes accumulated by a read never exceed the 10 MiB ceiling, and a
\* request whose read stopped at the ceiling is answered with success.
C9_CeilingRespected ==
    \A r \in Reqs :
        /\ DataLen(req[r].data) <= max_size
        /\ (Done(r) /\ req[r].truncated /\ ValidHeaders(req[r].h)
            /\ req[r].b.disk = DiskOk)
           => req[r].resp.code = 200

\* C10: when the primary chunked read raises after some chunks and the
\* fallback adds nothing, the partial bytes are not stored and the request
\* is not answered with success.
C10_NoPartialStored ==
    \A r \in Reqs :
        OnlyPartialData(req[r])
        => ~Wrote(r) /\ (Done(r) => req[r].resp.code # 200)

====
